---------------------------- MODULE Spec2Model ----------------------------
(***************************************************************************)
(* Rolling cosine similarity over a multivariate time series, as written   *)
(* in the notebook "Rolling Cosine Similarity".                            *)
(*                                                                         *)
(* Numbers.  The inputs are integers.  Every number the code computes is   *)
(* then a real of the form  g / sqrt(r)  with g, r integers, and is kept   *)
(* exactly: a norm sqrt(r) is the record [sq |-> r]; a quotient is the     *)
(* record [sgn, num, den] standing for sgn * sqrt(num / den) with num/den  *)
(* in lowest terms, or one of the IEEE specials NaN, PosInf, NegInf.       *)
(* Floating-point rounding is not modelled.                                *)
(*                                                                         *)
(* A cell of an input is a float64 holding an integer value.               *)
(*                                                                         *)
(* Arrays.  A 2-D input is a sequence of rows.  The 4-D result of          *)
(* sliding_window_view is a strided view: its shape, the array it looks    *)
(* into, and the axes np.squeeze has left.                                 *)
(***************************************************************************)
EXTENDS Integers, Naturals, Sequences, FiniteSets, TLC

\* Largest window (rows handed to the single-window function) and largest
\* number of channels that are explored.
MaxW == 2
MaxC == 2
\* Longest time series explored: long enough for a window strictly between
\* one row and the whole series.
MaxT == MaxW + 1
\* The values an input cell takes.
Vals == {-1, 0, 1}

VARIABLES
    array_2D,      \* notebook global: the data set
    arr,           \* the matrix a caller passes as first argument
    window_size,   \* notebook global, passed as window_size
    num_features,  \* notebook global, passed as num_features
    sol1,          \* outcome of calc_rolling_cosine_similarity_v1
    sol2,          \* outcome of calc_rolling_cosine_similarity_v2
    sol3,          \* outcome of calc_rolling_cosine_similarity_numba
    win,           \* a 2-D array handed to the single-window functions
    m_np,          \* outcome of calc_cosine_similarity_on_2darray(win)
    m_nb           \* outcome of calc_cosine_similarity_on_2darray_numba(win)

vars == <<array_2D, arr, window_size, num_features, sol1, sol2, sol3,
          win, m_np, m_nb>>

---------------------------------------------------------------------------
(* Exact arithmetic *)

Sign(x) == IF x > 0 THEN 1 ELSE IF x < 0 THEN -1 ELSE 0

RECURSIVE Gcd(_, _)
Gcd(a, b) == IF b = 0 THEN a ELSE Gcd(b, a % b)

NaN == [special |-> "nan"]
PosInf == [special |-> "inf"]
NegInf == [special |-> "-inf"]

\* The real number sgn * sqrt(num / den).
Real(sgn, num, den) == [sgn |-> sgn, num |-> num, den |-> den]

One == Real(1, 1, 1)
MinusOne == Real(-1, 1, 1)
Zero == Real(0, 0, 1)

IsNaN(v) == v = NaN

\* np.sqrt of a non-negative integer.
Sqrt(n) == [sq |-> n]

\* Elementwise product of two norms: sqrt(a) * sqrt(b) = sqrt(a * b).
NormMul(x, y) == [sq |-> x.sq * y.sq]

\* Elementwise true division of an integer by a norm product, IEEE rules
\* for a zero divisor: 0/0 is NaN, x/0 is a signed infinity.
Divide(g, n) ==
    IF n.sq = 0
        THEN IF g = 0 THEN NaN ELSE IF g > 0 THEN PosInf ELSE NegInf
    ELSE IF g = 0 THEN Zero
    ELSE LET d == Gcd(g * g, n.sq)
         IN  Real(Sign(g), (g * g) \div d, n.sq \div d)

RECURSIVE SumTo(_, _)
\* f[1] + ... + f[n]
SumTo(f, n) == IF n = 0 THEN 0 ELSE SumTo(f, n - 1) + f[n]

---------------------------------------------------------------------------
(* Inputs.  An array handed to a single-window function is the record      *)
(* [shape |-> <<R, C>>, a |-> R rows of C cells].                          *)

\* All sequences of n cells.
Rows(n) == [1..n -> Vals]

\* All T x C inputs, as sequences of rows.
MatricesOf(T, C) == [1..T -> Rows(C)]

Matrices == UNION {MatricesOf(T, C) : T \in 1..MaxT, C \in 1..MaxC}

NumRows(x) == Len(x)
NumCols(x) == Len(x[1])

---------------------------------------------------------------------------
(* What a call ends in *)

Unset == [outcome |-> "unset"]

\* The call returned `v`; `n` similarity matrices were computed on the way.
Returned(v, n) == [outcome |-> "returned", value |-> v, computed |-> n]

\* The call raised an exception in `where`, after computing `n` matrices.
Raised(where, n) == [outcome |-> "raised", at |-> where, computed |-> n]

---------------------------------------------------------------------------
(* numpy pieces used by the single-window functions *)

NDim(w) == Len(w.shape)

\* arr[:, i]
Column(w, i) == [r \in 1..w.shape[1] |-> w.a[r][i]]

\* arr.T @ arr for a 2-D arr: entry (i, j) is the dot product of columns
\* i and j.
GramMatrix(w) ==
    LET R == w.shape[1]
        C == w.shape[2]
    IN  [i \in 1..C |-> [j \in 1..C |->
            SumTo([r \in 1..R |-> w.a[r][i] * w.a[r][j]], R)]]

\* np.linalg.norm(arr, axis=0): the Euclidean norm of every column.
linalg_norm(w) ==
    LET R == w.shape[1]
        C == w.shape[2]
    IN  [i \in 1..C |-> Sqrt(SumTo([r \in 1..R |-> w.a[r][i] * w.a[r][i]], R))]

\* np.expand_dims(v, axis=0): a 1 x C array.
expand_dims(v) == <<v>>

\* np.tile(m, (n, 1)) of a 1 x C array: its row, n times.
tile(m, n) == [i \in 1..n |-> m[1]]

\* The transpose left out: m itself.
TransposeForgotten(m) == m

\* m.T of an n x n array.
Transpose(m) == [i \in 1..Len(m) |-> [j \in 1..Len(m) |-> m[j][i]]]

\* a * b, elementwise, of two n x n arrays of norms.
MulNorms(a, b) == [i \in 1..Len(a) |-> [j \in 1..Len(a) |-> NormMul(a[i][j], b[i][j])]]

\* g / n, elementwise, of an n x n integer array by an n x n array of norms.
DivByNorms(g, n) == [i \in 1..Len(g) |-> [j \in 1..Len(g) |-> Divide(g[i][j], n[i][j])]]

---------------------------------------------------------------------------
(* calc_cosine_similarity_on_2darray *)

\* On a 1-D arr np.linalg.norm gives a scalar, expand_dims a 1-element
\* array, and arr_norm_r.shape[1] raises IndexError; on a 0-d or 3-D arr the
\* matrix product or the broadcast raises.
calc_cosine_similarity_on_2darray(w) ==
    IF NDim(w) # 2 THEN Raised("calc_cosine_similarity_on_2darray", 0)
    ELSE LET arr_x_arr == GramMatrix(w)
             arr_norm == linalg_norm(w)
             arr_norm_r == expand_dims(arr_norm)
             arr_norm_r_m == tile(arr_norm_r, Len(arr_norm_r[1]))
             arr_norm_c_m == Transpose(arr_norm_r_m)
             arr_norm_mul == MulNorms(arr_norm_r_m, arr_norm_c_m)
         IN  Returned(DivByNorms(arr_x_arr, arr_norm_mul), 1)

---------------------------------------------------------------------------
(* calc_norm, calc_cosine_similarity_on_2darray_numba *)

\* The square root left out: np.sum(np.square(v)).
calc_norm_no_sqrt(v) ==
    LET ss == SumTo([r \in 1..Len(v) |-> v[r] * v[r]], Len(v))
    IN  Sqrt(ss * ss)

\* np.sqrt(np.sum(np.square(v)))
calc_norm(v) == Sqrt(SumTo([r \in 1..Len(v) |-> v[r] * v[r]], Len(v)))

\* np.ones((n, n)) * row, the 1 x n row broadcast over the rows.
OnesTimes(row, n) ==
    [i \in 1..n |-> [j \in 1..n |-> NormMul(Sqrt(1), row[1][j])]]

\* The function is compiled for the type of its argument: for anything but
\* a 2-D array arr.shape[1] (or arr.T @ arr) does not type, and the call
\* raises a TypingError.
calc_cosine_similarity_on_2darray_numba(w) ==
    IF NDim(w) # 2 THEN Raised("numba_typing", 0)
    ELSE LET C == w.shape[2]
             arr_x_arr == GramMatrix(w)
             arr_norm_r == <<[i \in 1..C |-> calc_norm(Column(w, i))]>>
             arr_norm_r_m == OnesTimes(arr_norm_r, C)
             arr_norm_c_m == Transpose(arr_norm_r_m)
             arr_norm_mul == MulNorms(arr_norm_r_m, arr_norm_c_m)
         IN  Returned(DivByNorms(arr_x_arr, arr_norm_mul), 1)

---------------------------------------------------------------------------
(* sklearn.metrics.pairwise.cosine_similarity, called on arr.T *)

\* normalize(X): every row of X = arr.T (a column of arr) is divided by its
\* Euclidean norm, a zero norm being replaced by 1 first.  The cells of one
\* row share their divisor, so the row is kept as its integers and its scale.
sklearn_normalize(w) ==
    [i \in 1..w.shape[2] |->
        LET n == calc_norm(Column(w, i))
        IN  [cells |-> Column(w, i), scale |-> IF n.sq = 0 THEN Sqrt(1) ELSE n]]

\* check_array refuses anything but a 2-D array with at least one sample
\* and one feature; otherwise the result is normalize(X) @ normalize(X).T.
cosine_similarity_T(w) ==
    IF NDim(w) # 2 \/ w.shape[1] < 1 \/ w.shape[2] < 1
        THEN Raised("cosine_similarity", 0)
    ELSE LET R == w.shape[1]
             C == w.shape[2]
             X == sklearn_normalize(w)
         IN  Returned([i \in 1..C |-> [j \in 1..C |->
                 Divide(SumTo([r \in 1..R |-> X[i].cells[r] * X[j].cells[r]], R),
                        NormMul(X[i].scale, X[j].scale))]], 1)

---------------------------------------------------------------------------
(* np.lib.stride_tricks.sliding_window_view and np.squeeze *)

\* The view of x with window_shape = (w, nf): a negative entry or a window
\* larger than x raises ValueError; otherwise the 4-D view of shape
\* (T - w + 1, C - nf + 1, w, nf) whose cell (a, b, i, j) is x[a + i][b + j].
sliding_window_view(x, w, nf) ==
    IF w < 0 \/ nf < 0 THEN Raised("sliding_window_view", 0)
    ELSE IF w > NumRows(x) \/ nf > NumCols(x) THEN Raised("sliding_window_view", 0)
    ELSE [outcome |-> "view",
          shape |-> <<NumRows(x) - w + 1, NumCols(x) - nf + 1, w, nf>>,
          axes |-> <<1, 2, 3, 4>>,
          base |-> x]

\* np.squeeze: every axis of length 1 is dropped.
squeeze(v) ==
    LET Keep(k) == v.shape[k] # 1
    IN  [v EXCEPT !.axes = SelectSeq(v.axes, Keep)]

\* The shape of a (squeezed) view.
ShapeOf(v) == [k \in 1..Len(v.axes) |-> v.shape[v.axes[k]]]

\* The cell of the view at the 0-based index `idx` over its remaining axes.
CellOf(v, idx) ==
    LET full == [k \in 1..4 |->
                    IF \E n \in 1..Len(v.axes) : v.axes[n] = k
                        THEN idx[CHOOSE n \in 1..Len(v.axes) : v.axes[n] = k]
                        ELSE 0]
    IN  v.base[full[1] + full[3] + 1][full[2] + full[4] + 1]

\* v[k], the k-th (0-based) element met when iterating over the view: an
\* array with one axis less.  Only a 2-D element is ever read cell by cell.
Item(v, k) ==
    LET sh == Tail(ShapeOf(v))
    IN  IF Len(sh) = 2
            THEN [shape |-> sh,
                  a |-> [p \in 1..sh[1] |-> [q \in 1..sh[2] |->
                            CellOf(v, <<k, p - 1, q - 1>>)]]]
            ELSE [shape |-> sh]

---------------------------------------------------------------------------
(* The three rolling strategies *)

\* The function a strategy applies to every element of the windowed view.
Similarity(strategy, w) ==
    CASE strategy = "v1" -> cosine_similarity_T(w)
      [] strategy = "v2" -> calc_cosine_similarity_on_2darray(w)
      [] strategy = "numba" -> calc_cosine_similarity_on_2darray_numba(w)

RECURSIVE Comprehension(_, _, _, _)
\* [f(arr) for arr in v], from element k on, `acc` being the list so far;
\* an exception in f ends the comprehension.
Comprehension(strategy, v, k, acc) ==
    IF k >= ShapeOf(v)[1] THEN Returned(acc, Len(acc))
    ELSE LET r == Similarity(strategy, Item(v, k))
         IN  IF r.outcome = "raised" THEN Raised(r.at, Len(acc))
             ELSE Comprehension(strategy, v, k + 1, Append(acc, r.value))

\* Iterating over a 0-d array raises TypeError.
ForEachWindow(strategy, v) ==
    IF Len(v.axes) = 0 THEN Raised("iteration", 0)
    ELSE Comprehension(strategy, v, 0, <<>>)

\* The body reads the notebook global array_2D, not its parameter `array`.
calc_rolling_cosine_similarity_v1(array, w, nf) ==
    LET view == sliding_window_view(array_2D, w, nf)
    IN  IF view.outcome = "raised" THEN view
        ELSE ForEachWindow("v1", squeeze(view))

\* The body reads the notebook global array_2D, not its parameter `array`.
calc_rolling_cosine_similarity_v2(array, w, nf) ==
    LET view == sliding_window_view(array_2D, w, nf)
    IN  IF view.outcome = "raised" THEN view
        ELSE ForEachWindow("v2", squeeze(view))

\* Compiled: a 0-d array_windowed, like any element that is not 2-D, fails
\* typing before anything runs.
rolling_cosine_similarity_numba(array_windowed) ==
    IF Len(array_windowed.axes) = 0 THEN Raised("numba_typing", 0)
    ELSE Comprehension("numba", array_windowed, 0, <<>>)

calc_rolling_cosine_similarity_numba(a, w, nf) ==
    LET view == sliding_window_view(a, w, nf)
    IN  IF view.outcome = "raised" THEN view
        ELSE rolling_cosine_similarity_numba(squeeze(view))

---------------------------------------------------------------------------
(* The notebook as a state machine *)

\* Other data than x, of the same shape: its rows in reverse order.
OtherData(x) == [t \in 1..Len(x) |-> x[Len(x) + 1 - t]]

NoWindow == [shape |-> <<0, 0>>, a |-> <<>>]

Init ==
    /\ arr \in Matrices
    /\ array_2D \in {arr, OtherData(arr)}
    /\ window_size \in -1..(NumRows(arr) + 1)
    /\ num_features \in 1..(NumCols(arr) + 1)
    /\ sol1 = Unset /\ sol2 = Unset /\ sol3 = Unset
    /\ win = NoWindow /\ m_np = Unset /\ m_nb = Unset

\* sol1 = calc_rolling_cosine_similarity_v1(arr, window_size, num_features)
CallV1 ==
    /\ sol1 = Unset
    /\ sol1' = calc_rolling_cosine_similarity_v1(arr, window_size, num_features)
    /\ UNCHANGED <<array_2D, arr, window_size, num_features, sol2, sol3,
                   win, m_np, m_nb>>

\* sol2 = calc_rolling_cosine_similarity_v2(arr, window_size, num_features)
CallV2 ==
    /\ sol2 = Unset
    /\ sol2' = calc_rolling_cosine_similarity_v2(arr, window_size, num_features)
    /\ UNCHANGED <<array_2D, arr, window_size, num_features, sol1, sol3,
                   win, m_np, m_nb>>

\* sol3 = calc_rolling_cosine_similarity_numba(arr, window_size, num_features)
CallNumba ==
    /\ sol3 = Unset
    /\ sol3' = calc_rolling_cosine_similarity_numba(arr, window_size, num_features)
    /\ UNCHANGED <<array_2D, arr, window_size, num_features, sol1, sol2,
                   win, m_np, m_nb>>

Next == CallV1 \/ CallV2 \/ CallNumba

Spec == Init /\ [][Next]_vars

---------------------------------------------------------------------------
(* The single-window functions on their own *)

\* Every R x C array a window can be, the empty window (R = 0) included.
Windows ==
    UNION {{[shape |-> <<R, C>>, a |-> m] : m \in MatricesOf(R, C)} :
              R \in 0..MaxW, C \in 1..MaxC}

InitMatrix ==
    /\ win \in Windows
    /\ m_np = Unset /\ m_nb = Unset
    /\ arr = <<<<0>>>> /\ array_2D = <<<<0>>>>
    /\ window_size = 1 /\ num_features = 1
    /\ sol1 = Unset /\ sol2 = Unset /\ sol3 = Unset

\* m_np = calc_cosine_similarity_on_2darray(win)
CallCosSim ==
    /\ m_np = Unset
    /\ m_np' = calc_cosine_similarity_on_2darray(win)
    /\ UNCHANGED <<array_2D, arr, window_size, num_features, sol1, sol2, sol3,
                   win, m_nb>>

\* m_nb = calc_cosine_similarity_on_2darray_numba(win)
CallCosSimNumba ==
    /\ m_nb = Unset
    /\ m_nb' = calc_cosine_similarity_on_2darray_numba(win)
    /\ UNCHANGED <<array_2D, arr, window_size, num_features, sol1, sol2, sol3,
                   win, m_np>>

NextMatrix == CallCosSim \/ CallCosSimNumba

SpecMatrix == InitMatrix /\ [][NextMatrix]_vars

---------------------------------------------------------------------------
(* Cosine similarity as the specification defines it, for stating claims *)

Dot(u, v) == SumTo([r \in 1..Len(u) |-> u[r] * v[r]], Len(u))

\* dot(u, v) / (|u| |v|), not-a-number when either norm is zero.
CosineOf(u, v) == Divide(Dot(u, v), Sqrt(Dot(u, u) * Dot(v, v)))

\* Channel c of x restricted to the w rows from row k (0-based) on.
ChannelIn(x, c, k, w) == [r \in 1..w |-> x[k + r][c]]

\* The similarity matrix of the window of x that starts at row k.
WindowCosine(x, k, w) ==
    [i \in 1..NumCols(x) |-> [j \in 1..NumCols(x) |->
        CosineOf(ChannelIn(x, i, k, w), ChannelIn(x, j, k, w))]]

\* Channel c is all-zero in the window of x that starts at row k.
ZeroIn(x, c, k, w) == \A r \in 1..w : x[k + r][c] = 0

Max0(n) == IF n < 0 THEN 0 ELSE n

Called(s) == s # Unset

T_ == NumRows(arr)
C_ == NumCols(arr)

\* A matrix of several rows and several channels, its channel count passed
\* as num_features.
ProperCall == T_ >= 2 /\ C_ >= 2 /\ num_features = C_

\* The call is the intended use: a proper call, the notebook global holding
\* the matrix that is passed.
IntendedUse == ProperCall /\ array_2D = arr

---------------------------------------------------------------------------
(* Claims on the rolling operation, under Spec *)

CountOk(s) ==
    Called(s) =>
        /\ s.outcome = "returned"
        /\ Len(s.value) = Max0(T_ - window_size + 1)

\* C1: for every input with T rows and every window_size >= 1, the sequence
\* returned by calc_rolling_cosine_similarity_v2 and by
\* calc_rolling_cosine_similarity_numba has max(0, T - window_size + 1)
\* matrices.
C1_Count ==
    (window_size >= 1 /\ IntendedUse) => CountOk(sol2) /\ CountOk(sol3)

\* C2: for every k in 0 .. T - window_size, element k of the result of
\* calc_rolling_cosine_similarity_numba(arr, window_size, C) is the
\* similarity matrix of rows k .. k + window_size - 1 of arr.
C2_Order ==
    (window_size \in 1..T_ /\ ProperCall /\ Called(sol3)) =>
        /\ sol3.outcome = "returned"
        /\ \A k \in 0..(T_ - window_size) :
              /\ k + 1 <= Len(sol3.value)
              /\ sol3.value[k + 1] = WindowCosine(arr, k, window_size)

NoZeroNorm ==
    \A k \in 0..(T_ - window_size) : \A c \in 1..C_ :
        ~ZeroIn(arr, c, k, window_size)

\* C3: when no channel has zero norm within any window, the three
\* strategies, called with the same matrix and window_size, return
\* sequences of the same length with equal matrices at every index.
C3_Agreement ==
    (/\ window_size \in 1..T_ /\ ProperCall /\ NoZeroNorm
     /\ Called(sol1) /\ Called(sol2) /\ Called(sol3)) =>
        /\ sol1.outcome = "returned"
        /\ sol2.outcome = "returned"
        /\ sol3.outcome = "returned"
        /\ sol1.value = sol2.value
        /\ sol2.value = sol3.value

EmptyOk(s) == Called(s) => s.outcome = "returned" /\ s.value = <<>>

\* C4: when window_size > T the rolling operation raises nothing and
\* returns an empty sequence.
C4_Empty ==
    (window_size > T_ /\ IntendedUse) => EmptyOk(sol2) /\ EmptyOk(sol3)

FailsFast(s) == Called(s) => s.outcome = "raised" /\ s.computed = 0

\* C5: for every window_size < 1 the rolling operation ends in an error
\* before any similarity matrix is computed and returns no sequence.
C5_InvalidWindow ==
    (window_size < 1 /\ IntendedUse) => FailsFast(sol2) /\ FailsFast(sol3)

WholeOk(s) ==
    Called(s) =>
        /\ s.outcome = "returned"
        /\ s.value = <<WindowCosine(arr, 0, T_)>>

\* C6: when window_size = T the rolling operation returns exactly one
\* matrix, the similarity matrix over all T rows.
C6_WholeSeries ==
    (window_size = T_ /\ IntendedUse) => WholeOk(sol2) /\ WholeOk(sol3)

\* sign(a) * sign(b) when both are nonzero, not-a-number otherwise.
SignProduct(a, b) ==
    IF a = 0 \/ b = 0 THEN NaN
    ELSE IF Sign(a) * Sign(b) = 1 THEN One ELSE MinusOne

SingleRowOk(s) ==
    Called(s) =>
        /\ s.outcome = "returned"
        /\ Len(s.value) = T_
        /\ \A t \in 1..T_ : \A i \in 1..C_ : \A j \in 1..C_ :
              s.value[t][i][j] = SignProduct(arr[t][i], arr[t][j])

\* C7: when window_size = 1 the rolling operation returns T matrices, one
\* per row, whose entry (i, j) is the product of the signs of the row's
\* values in channels i and j, or not-a-number when either value is zero.
C7_SingleRow ==
    (window_size = 1 /\ IntendedUse) => SingleRowOk(sol2) /\ SingleRowOk(sol3)

SomeZeroChannel ==
    \E k \in 0..(T_ - window_size) : \E c \in 1..C_ :
        ZeroIn(arr, c, k, window_size)

DegenerateOk(s) ==
    Called(s) =>
        /\ s.outcome = "returned"
        /\ Len(s.value) = T_ - window_size + 1
        /\ \A k \in 0..(T_ - window_size) : \A c \in 1..C_ : \A j \in 1..C_ :
              IF ZeroIn(arr, c, k, window_size)
                  THEN /\ IsNaN(s.value[k + 1][c][j])
                       /\ IsNaN(s.value[k + 1][j][c])
                  ELSE IsNaN(s.value[k + 1][c][j]) =>
                           ZeroIn(arr, j, k, window_size)

\* C8: if a channel is all-zero within some window, every entry of that
\* window's matrix in the channel's row and column is not-a-number, no
\* error is raised, the full sequence is returned, and no other window's
\* matrix has a not-a-number entry caused by that channel.
C8_Degenerate ==
    (window_size \in 1..T_ /\ IntendedUse /\ SomeZeroChannel) =>
        DegenerateOk(sol2) /\ DegenerateOk(sol3)

---------------------------------------------------------------------------
(* Claims on the single-window functions, under SpecMatrix *)

Symmetric(m) ==
    m.outcome = "returned" =>
        \A i \in 1..Len(m.value) : \A j \in 1..Len(m.value) :
            m.value[i][j] = m.value[j][i]

\* C9: every matrix produced by calc_cosine_similarity_on_2darray and by
\* calc_cosine_similarity_on_2darray_numba is symmetric: entry (i, j)
\* equals entry (j, i), a not-a-number entry being mirrored by one.
C9_Symmetry == Symmetric(m_np) /\ Symmetric(m_nb)

\* Both functions have produced a matrix of two channels of different,
\* nonzero norms that are neither orthogonal nor parallel.
C9_Witness ==
    /\ m_np.outcome = "returned" /\ m_nb.outcome = "returned"
    /\ win.shape[2] >= 2
    /\ calc_norm(Column(win, 1)) # calc_norm(Column(win, 2))
    /\ m_np.value[1][2] \notin {NaN, Zero, One, MinusOne}
    /\ m_nb.value[2][1] \notin {NaN, Zero, One, MinusOne}

NonzeroNorm(w, i) == \E r \in 1..w.shape[1] : w.a[r][i] # 0

UnitDiagonal(m) ==
    m.outcome = "returned" =>
        \A i \in 1..Len(m.value) : NonzeroNorm(win, i) => m.value[i][i] = One

\* C10: for every window and every channel whose norm within the window is
\* nonzero, the diagonal entry of the similarity matrix is 1.
C10_SelfSimilarity == UnitDiagonal(m_np) /\ UnitDiagonal(m_nb)

\* Both functions have produced a matrix for a window in which one channel
\* has a norm other than 0 and 1 and another channel is all-zero.
C10_Witness ==
    /\ m_np.outcome = "returned" /\ m_nb.outcome = "returned"
    /\ \E i \in 1..win.shape[2] :
          /\ calc_norm(Column(win, i)) \notin {Sqrt(0), Sqrt(1)}
          /\ m_np.value[i][i] = One /\ m_nb.value[i][i] = One
    /\ \E i \in 1..win.shape[2] :
          /\ ~NonzeroNorm(win, i)
          /\ IsNaN(m_np.value[i][i])

---------------------------------------------------------------------------
(* Claims on the arguments of the rolling operation, under Spec *)

\* A window strictly between one row and the whole series.
InteriorWindow == 1 < window_size /\ window_size < T_

\* m is an n x n matrix.
IsSquare(m, n) == Len(m) = n /\ \A i \in 1..Len(m) : Len(m[i]) = n

ShapeOk(s) ==
    Called(s) =>
        /\ s.outcome = "returned"
        /\ Len(s.value) = T_ - window_size + 1
        /\ \A k \in 1..Len(s.value) : IsSquare(s.value[k], C_)

\* C11: every element of the result is a C x C matrix, C the number of
\* columns of the input, for every C >= 1 and every value passed as
\* num_features; neither changes the number of results.
C11_Shape ==
    (InteriorWindow /\ array_2D = arr) => ShapeOk(sol2) /\ ShapeOk(sol3)

\* What a strategy returns when the windows it processes are those of x.
RollingOn(strategy, x, w, nf) ==
    LET view == sliding_window_view(x, w, nf)
    IN  IF view.outcome = "raised" THEN view
        ELSE ForEachWindow(strategy, squeeze(view))

\* C12: the result of calc_rolling_cosine_similarity_v1 and of
\* calc_rolling_cosine_similarity_v2 is a function of their arguments only:
\* whatever the notebook global array_2D holds, it is the result for the
\* windows of the `array` argument.
C12_OwnArguments ==
    /\ Called(sol1) => sol1 = RollingOn("v1", arr, window_size, num_features)
    /\ Called(sol2) => sol2 = RollingOn("v2", arr, window_size, num_features)

=============================================================================
